---- MODULE Spec2Model ----
(***************************************************************************)
(* Model of the movie record service of src/src/main.rs: an axum router    *)
(* with POST /movie (post_handler) and GET /movie/{id} (get_handler), both *)
(* working on one Arc<Mutex<MoviesState>>.  Every request is served by a   *)
(* task of the multi-threaded tokio runtime; the tasks interleave at every *)
(* step of a handler.                                                      *)
(***************************************************************************)
EXTENDS Integers, Sequences, FiniteSets, TLC

(* ---- bounds ---- *)
NumTasks == 3

Tasks == 1..NumTasks

None == 0

(* ---- struct Movie ---- *)
U16_MAX == 65535

Movie(i, n, y, g) == [id |-> i, name |-> n, year |-> y, was_good |-> g]

\* the request bodies that the Json<Movie> extractor accepts (a sample)
Movies ==
    { Movie("m1", "Up", 2009, TRUE),
      Movie("m1", "Heat", U16_MAX, FALSE),
      Movie("m2", "Heat", 0, FALSE),
      Movie("", "Up", 2009, TRUE) }

\* a placeholder for the requests that carry no body
NoMovie == Movie("", "", 0, FALSE)

\* the ids that the route "/movie/{id}" captures: a path segment is not empty
PathIds == {"m1", "m2"}

(* ---- responses ---- *)
OK == 200
BAD_REQUEST == 400
NOT_FOUND == 404

NoBody == << >>

NoResponse == [status |-> 0, body |-> NoBody]

Response(s, b) == [status |-> s, body |-> b]

(* ---- serde ---- *)
\* a serializer that writes name and id into each other's field
to_string_pretty_misplaced(m) ==
    [ok |-> TRUE,
     val |-> << <<"id", m.name>>, <<"name", m.id>>,
                <<"year", m.year>>, <<"was_good", m.was_good>> >>]

\* serde_json::to_string_pretty of a Movie: the fields in declaration order
to_string_pretty(m) ==
    [ok |-> TRUE,
     val |-> << <<"id", m.id>>, <<"name", m.name>>,
                <<"year", m.year>>, <<"was_good", m.was_good>> >>]

\* the Deserialize side: the record that a serialized body denotes
from_str(b) ==
    [id |-> b[1][2], name |-> b[2][2], year |-> b[3][2], was_good |-> b[4][2]]

(* ---- HashMap<String, Movie> ---- *)
\* a map that is created with a record in it
HashMap_new_seeded == "m1" :> Movie("m1", "Up", 2009, TRUE)

HashMap_new == << >>

\* a check that never finds the key
contains_key_never(m, k) == FALSE

\* a check that asks whether the map holds anything at all
contains_key_any(m, k) == DOMAIN m # {}

contains_key(m, k) == k \in DOMAIN m

\* an insert that forgets the entries it found
insert_forgetful(m, k, v) == [x \in {k} |-> v]

insert(m, k, v) == [x \in (DOMAIN m) \cup {k} |-> IF x = k THEN v ELSE m[x]]

Some(v) == [some |-> TRUE, val |-> v]

get(m, k) == IF k \in DOMAIN m THEN Some(m[k]) ELSE [some |-> FALSE, val |-> NoMovie]

(* ---- tokio::sync::Mutex: a fair lock, waiters served first in first out ---- *)
Mutex_new == [holder |-> None, waiters |-> << >>]

\* a lock that is granted to whoever asks, held or not
lock_barging(mx, t) == [holder |-> t, waiters |-> mx.waiters]

lock(mx, t) ==
    IF mx.holder = None
    THEN [holder |-> t, waiters |-> mx.waiters]
    ELSE [holder |-> mx.holder, waiters |-> Append(mx.waiters, t)]

\* a guard that is forgotten and never gives the lock back
drop_forget(mx) == mx

\* the guard is dropped: the lock goes to the first waiter, if any
drop(mx) ==
    IF mx.waiters = << >>
    THEN [holder |-> None, waiters |-> << >>]
    ELSE [holder |-> Head(mx.waiters), waiters |-> Tail(mx.waiters)]

\* a task that goes on without waiting for the guard
locked_always(mx, t) == TRUE

\* lock().await has returned the guard to task t
locked(mx, t) == mx.holder = t

(* ---- Arc<Mutex<MoviesState>> ---- *)
\* the allocations a handle can point to; state_init() makes the first one
Addrs == {1, 2}

state == 1

\* a second state_init() in place of the clone
state_clone_fresh == 2

\* main: let state_clone = state.clone(), the handle the GET route captures
state_clone == state

\* main: .with_state(state.clone()), the handle the POST route extracts
with_state == state

VARIABLES movies, mutex, pc, req, response, doneAtStart

vars == <<movies, mutex, pc, req, response, doneAtStart>>

Done == {t \in Tasks : pc[t] = "done"}

Init ==
    /\ movies = [a \in Addrs |-> HashMap_new]
    /\ mutex = [a \in Addrs |-> Mutex_new]
    /\ pc = [t \in Tasks |-> "idle"]
    /\ req = [t \in Tasks |-> [kind |-> "none", id |-> "", movie |-> NoMovie]]
    /\ response = [t \in Tasks |-> NoResponse]
    /\ doneAtStart = [t \in Tasks |-> {}]

\* an entry keyed by the name of the movie
insert_key_name(movie) == movie.name

\* which field of the movie keys the entry (line 45: movie.id.clone())
insert_key(movie) == movie.id

\* post_handler line 39: the handler starts and asks for the lock
post_handler_lock(t, movie) ==
    /\ pc[t] = "idle"
    /\ req' = [req EXCEPT ![t] = [kind |-> "post", id |-> "", movie |-> movie]]
    /\ doneAtStart' = [doneAtStart EXCEPT ![t] = Done]
    /\ mutex' = [mutex EXCEPT ![with_state] = lock(@, t)]
    /\ pc' = [pc EXCEPT ![t] = "await"]
    /\ UNCHANGED <<movies, response>>

\* an early return that keeps the guard
post_handler_check_leak(t) ==
    /\ pc[t] = "await"
    /\ req[t].kind = "post"
    /\ locked(mutex[with_state], t)
    /\ IF contains_key(movies[with_state], req[t].movie.id)
       THEN /\ response' = [response EXCEPT ![t] = Response(BAD_REQUEST, NoBody)]
            /\ pc' = [pc EXCEPT ![t] = "done"]
            /\ UNCHANGED mutex
       ELSE /\ pc' = [pc EXCEPT ![t] = "insert"]
            /\ UNCHANGED <<response, mutex>>
    /\ UNCHANGED <<movies, req, doneAtStart>>

\* post_handler lines 40-43: contains_key, and the early return
post_handler_check(t) ==
    /\ pc[t] = "await"
    /\ req[t].kind = "post"
    /\ locked(mutex[with_state], t)
    /\ IF contains_key(movies[with_state], req[t].movie.id)
       THEN /\ response' = [response EXCEPT ![t] = Response(BAD_REQUEST, NoBody)]
            /\ mutex' = [mutex EXCEPT ![with_state] = drop(@)]
            /\ pc' = [pc EXCEPT ![t] = "done"]
       ELSE /\ pc' = [pc EXCEPT ![t] = "insert"]
            /\ UNCHANGED <<response, mutex>>
    /\ UNCHANGED <<movies, req, doneAtStart>>

\* post_handler line 45: insert
post_handler_insert(t) ==
    /\ pc[t] = "insert"
    /\ movies' = [movies EXCEPT ![with_state] =
                     insert(@, insert_key(req[t].movie), req[t].movie)]
    /\ pc' = [pc EXCEPT ![t] = "ret"]
    /\ UNCHANGED <<mutex, req, response, doneAtStart>>

\* post_handler lines 47-48: Ok(()), the guard is dropped
post_handler_return(t) ==
    /\ pc[t] = "ret"
    /\ response' = [response EXCEPT ![t] = Response(OK, NoBody)]
    /\ mutex' = [mutex EXCEPT ![with_state] = drop(@)]
    /\ pc' = [pc EXCEPT ![t] = "done"]
    /\ UNCHANGED <<movies, req, doneAtStart>>

\* get_handler line 52: the handler starts and asks for the lock
get_handler_lock(t, id) ==
    /\ pc[t] = "idle"
    /\ req' = [req EXCEPT ![t] = [kind |-> "get", id |-> id, movie |-> NoMovie]]
    /\ doneAtStart' = [doneAtStart EXCEPT ![t] = Done]
    /\ mutex' = [mutex EXCEPT ![state_clone] = lock(@, t)]
    /\ pc' = [pc EXCEPT ![t] = "await"]
    /\ UNCHANGED <<movies, response>>

\* the value get_handler returns for what the map holds (lines 53-61)
get_result(found) ==
    IF found.some
    THEN LET s == to_string_pretty(found.val)
         IN  IF s.ok THEN Response(OK, s.val) ELSE Response(NOT_FOUND, NoBody)
    ELSE Response(NOT_FOUND, NoBody)

\* a lookup that takes the entry out of the map (remove in place of get)
get_handler_read_take(t) ==
    /\ pc[t] = "await"
    /\ req[t].kind = "get"
    /\ locked(mutex[state_clone], t)
    /\ response' = [response EXCEPT ![t] = get_result(get(movies[state_clone], req[t].id))]
    /\ movies' = [movies EXCEPT ![state_clone] =
                     [k \in (DOMAIN @) \ {req[t].id} |-> @[k]]]
    /\ mutex' = [mutex EXCEPT ![state_clone] = drop(@)]
    /\ pc' = [pc EXCEPT ![t] = "done"]
    /\ UNCHANGED <<req, doneAtStart>>

\* get_handler lines 53-62: the lookup, the answer, the guard is dropped
get_handler_read(t) ==
    /\ pc[t] = "await"
    /\ req[t].kind = "get"
    /\ locked(mutex[state_clone], t)
    /\ response' = [response EXCEPT ![t] = get_result(get(movies[state_clone], req[t].id))]
    /\ mutex' = [mutex EXCEPT ![state_clone] = drop(@)]
    /\ pc' = [pc EXCEPT ![t] = "done"]
    /\ UNCHANGED <<movies, req, doneAtStart>>

Next ==
    \/ \E t \in Tasks, movie \in Movies : post_handler_lock(t, movie)
    \/ \E t \in Tasks : post_handler_check(t)
    \/ \E t \in Tasks : post_handler_insert(t)
    \/ \E t \in Tasks : post_handler_return(t)
    \/ \E t \in Tasks, id \in PathIds : get_handler_lock(t, id)
    \/ \E t \in Tasks : get_handler_read(t)

Spec == Init /\ [][Next]_vars

\* the runtime polls every handler that can go on: a handler that holds the
\* guard takes its next step; no request has to arrive
Fairness ==
    \A t \in Tasks :
        /\ WF_vars(post_handler_check(t))
        /\ WF_vars(post_handler_insert(t))
        /\ WF_vars(post_handler_return(t))
        /\ WF_vars(get_handler_read(t))

\* the requests on one id: two bodies that compete for it, and its lookup
LiveMovies == {m \in Movies : m.id = "m1"}

LivePathIds == {"m1"}

LiveNext ==
    \/ \E t \in Tasks, movie \in LiveMovies : post_handler_lock(t, movie)
    \/ \E t \in Tasks : post_handler_check(t)
    \/ \E t \in Tasks : post_handler_insert(t)
    \/ \E t \in Tasks : post_handler_return(t)
    \/ \E t \in Tasks, id \in LivePathIds : get_handler_lock(t, id)
    \/ \E t \in Tasks : get_handler_read(t)

LiveSpec == Init /\ [][LiveNext]_vars /\ Fairness

(* ---- vocabulary of the properties ---- *)
Puts == {t \in Tasks : req[t].kind = "post"}

Gets == {t \in Tasks : req[t].kind = "get"}

PutsOf(id) == {t \in Puts : req[t].movie.id = id}

Succeeded(t) == pc[t] = "done" /\ response[t].status = OK

Failed(t) == pc[t] = "done" /\ response[t].status # OK

AllIds == {m.id : m \in Movies} \cup PathIds

\* the store: the map behind the handle that main created
store == movies[state]

TypeOK ==
    /\ \A a \in Addrs : DOMAIN movies[a] \subseteq AllIds
    /\ \A a \in Addrs : \A k \in DOMAIN movies[a] : movies[a][k] \in Movies
    /\ \A a \in Addrs : mutex[a].holder \in Tasks \cup {None}
    /\ pc \in [Tasks -> {"idle", "await", "insert", "ret", "done"}]
    /\ \A t \in Tasks : response[t].status \in {0, OK, BAD_REQUEST, NOT_FOUND}

(* C1: of the puts that carry one id, at most one succeeds; once all of    *)
(* them have completed exactly one has succeeded, every other one has got  *)
(* BAD_REQUEST, and the store holds the payload of the one that succeeded. *)
C1_OnePutWins ==
    \A id \in AllIds :
        LET P == PutsOf(id)
            W == {t \in P : Succeeded(t)}
        IN  /\ Cardinality(W) <= 1
            /\ \A w \in W : id \in DOMAIN store /\ store[id] = req[w].movie
            /\ (P # {} /\ P \subseteq Done) =>
                   /\ Cardinality(W) = 1
                   /\ \A t \in P \ W : response[t] = Response(BAD_REQUEST, NoBody)

\* two puts of one id with different payloads ran concurrently and both completed
C1_Witness ==
    \E w, l \in Tasks :
        /\ w # l
        /\ req[w].kind = "post" /\ req[l].kind = "post"
        /\ req[w].movie.id = req[l].movie.id
        /\ req[w].movie # req[l].movie
        /\ Succeeded(w) /\ Failed(l)
        /\ w \notin doneAtStart[l] /\ l \notin doneAtStart[w]

(* C2: a put goes on to insert exactly when its id is absent from the      *)
(* store; the id is still absent when it inserts, and the insert adds the  *)
(* mapping id -> record and changes no other entry; it then answers 200    *)
(* with an empty body; a put that finds its id answers BAD_REQUEST and     *)
(* leaves the store as it is.                                              *)
C2_PutStep(t) ==
    LET id == req[t].movie.id
    IN  /\ (pc[t] = "await" /\ req[t].kind = "post" /\ pc'[t] # "await") =>
               /\ (pc'[t] = "insert") <=> (id \notin DOMAIN store)
               /\ (pc'[t] # "insert") =>
                      /\ pc'[t] = "done"
                      /\ response'[t] = Response(BAD_REQUEST, NoBody)
                      /\ movies' = movies
        /\ (pc[t] = "insert" /\ pc'[t] # "insert") =>
               /\ id \notin DOMAIN store
               /\ DOMAIN movies'[state] = DOMAIN store \cup {id}
               /\ movies'[state][id] = req[t].movie
               /\ \A k \in DOMAIN store : movies'[state][k] = store[k]
        /\ (pc[t] = "ret" /\ pc'[t] # "ret") =>
               /\ pc'[t] = "done"
               /\ response'[t] = Response(OK, NoBody)
               /\ movies' = movies

C2_PutContract == [][\A t \in Tasks : C2_PutStep(t)]_vars

\* one put has succeeded into a store that held another record, one was rejected
C2_Witness ==
    \E w, l \in Tasks :
        /\ req[w].kind = "post" /\ req[l].kind = "post"
        /\ Succeeded(w) /\ Failed(l)
        /\ Cardinality(DOMAIN store) >= 2

(* C3: a get that starts after a put of its id has completed with success  *)
(* answers 200 with the record of that put.                                *)
C3_ReadYourWrites ==
    \A g \in Gets \cap Done :
        \A p \in doneAtStart[g] :
            (req[p].kind = "post" /\ Succeeded(p) /\ req[p].movie.id = req[g].id) =>
                response[g] = Response(OK, to_string_pretty(req[p].movie).val)

\* a get missed, then a put of that id succeeded, then a get started and completed
C3_Witness ==
    \E m, p, g \in Tasks :
        /\ req[m].kind = "get" /\ req[p].kind = "post" /\ req[g].kind = "get"
        /\ req[m].id = req[p].movie.id /\ req[g].id = req[p].movie.id
        /\ pc[m] = "done" /\ response[m].status = NOT_FOUND
        /\ m \in doneAtStart[p]
        /\ Succeeded(p) /\ p \in doneAtStart[g]
        /\ pc[g] = "done"

(* C4: a get answers NOT_FOUND exactly when the store holds no record      *)
(* under its id, and otherwise answers 200 with a body that denotes the    *)
(* stored record in all four fields; a get of an id that no put carries    *)
(* answers NOT_FOUND.                                                      *)
C4_GetStep(t) ==
    (pc[t] = "await" /\ req[t].kind = "get" /\ pc'[t] # "await") =>
        /\ pc'[t] = "done"
        /\ (response'[t].status = NOT_FOUND) <=> (req[t].id \notin DOMAIN store)
        /\ (req[t].id \notin DOMAIN store) => response'[t].body = NoBody
        /\ (req[t].id \in DOMAIN store) =>
               /\ response'[t].status = OK
               /\ Len(response'[t].body) = 4
               /\ from_str(response'[t].body) = store[req[t].id]

C4_NeverPut ==
    \A g \in Gets \cap Done :
        PutsOf(req[g].id) = {} => response[g] = Response(NOT_FOUND, NoBody)

C4_GetContract == [](C4_NeverPut) /\ [][\A t \in Tasks : C4_GetStep(t)]_vars

\* one get has found its record and another has missed
C4_Witness ==
    \E g, h \in Gets \cap Done :
        /\ response[g].status = OK
        /\ from_str(response[g].body) \in Movies
        /\ response[h].status = NOT_FOUND

(* C5: a put whose id is in the store answers BAD_REQUEST and changes      *)
(* nothing, whatever its payload; a get that starts after it answers with  *)
(* the record that was stored first.                                       *)
C5_RejectStep(t) ==
    (/\ pc[t] = "await" /\ req[t].kind = "post" /\ pc'[t] # "await"
     /\ req[t].movie.id \in DOMAIN store) =>
        /\ pc'[t] = "done"
        /\ response'[t] = Response(BAD_REQUEST, NoBody)
        /\ movies' = movies

C5_FirstStays ==
    \A l \in Puts, g \in Gets \cap Done :
        (Failed(l) /\ l \in doneAtStart[g] /\ req[g].id = req[l].movie.id) =>
            \E w \in PutsOf(req[g].id) :
                /\ Succeeded(w)
                /\ req[g].id \in DOMAIN store
                /\ store[req[g].id] = req[w].movie
                /\ response[g] = Response(OK, to_string_pretty(req[w].movie).val)

C5_DuplicateRejected == [](C5_FirstStays) /\ [][\A t \in Tasks : C5_RejectStep(t)]_vars

\* put(r), then put(r') of the same id and another payload, then a get of the id
C5_Witness ==
    \E w, l, g \in Tasks :
        /\ req[w].kind = "post" /\ req[l].kind = "post" /\ req[g].kind = "get"
        /\ req[w].movie.id = req[l].movie.id /\ req[g].id = req[l].movie.id
        /\ req[w].movie # req[l].movie
        /\ Succeeded(w) /\ w \in doneAtStart[l]
        /\ Failed(l) /\ l \in doneAtStart[g]
        /\ pc[g] = "done"

(* C6: a put whose id no other put carries succeeds, whatever is stored    *)
(* under other ids, and a get of its id that starts after it answers with  *)
(* exactly its record.                                                     *)
C6_DistinctIdsAllStored ==
    \A p \in Puts \cap Done :
        PutsOf(req[p].movie.id) = {p} =>
            /\ Succeeded(p)
            /\ \A g \in Gets \cap Done :
                   (p \in doneAtStart[g] /\ req[g].id = req[p].movie.id) =>
                       response[g] = Response(OK, to_string_pretty(req[p].movie).val)

\* two puts of distinct ids one after the other, then a get of the first id
C6_Witness ==
    \E p, q, g \in Tasks :
        /\ req[p].kind = "post" /\ req[q].kind = "post" /\ req[g].kind = "get"
        /\ req[p].movie.id # req[q].movie.id
        /\ Succeeded(p) /\ p \in doneAtStart[q]
        /\ Succeeded(q) /\ q \in doneAtStart[g]
        /\ req[g].id = req[p].movie.id
        /\ pc[g] = "done"

(* C7: a record in the store stays there with the same value over every    *)
(* step of every put and get.                                              *)
C7_Immutable ==
    [][\A id \in DOMAIN store :
           id \in DOMAIN movies'[state] /\ movies'[state][id] = store[id]]_vars

\* a record is stored and a later put of its id with another payload has completed
C7_Witness ==
    \E w, l \in Tasks :
        /\ req[w].kind = "post" /\ req[l].kind = "post"
        /\ req[w].movie.id = req[l].movie.id
        /\ req[w].movie # req[l].movie
        /\ Succeeded(w) /\ w \in doneAtStart[l]
        /\ pc[l] = "done"
        /\ store[req[w].movie.id] = req[w].movie

(* C8: an operation that has failed holds no lock and leaves every entry   *)
(* of the store keyed by its record's id; a put that starts after a        *)
(* failure and whose id no other put carries succeeds, and a get that      *)
(* starts after a failure and after a successful put of its id answers     *)
(* with that record.                                                       *)
C8_StillUsable ==
    /\ \A f \in Tasks : Failed(f) =>
           /\ \A a \in Addrs : mutex[a].holder # f
           /\ \A k \in DOMAIN store : store[k].id = k
    /\ \A f, p \in Tasks :
           (/\ Failed(f) /\ f \in doneAtStart[p]
            /\ req[p].kind = "post" /\ pc[p] = "done"
            /\ PutsOf(req[p].movie.id) = {p}) => Succeeded(p)
    /\ \A f, w, g \in Tasks :
           (/\ Failed(f) /\ f \in doneAtStart[g]
            /\ req[w].kind = "post" /\ Succeeded(w) /\ w \in doneAtStart[g]
            /\ req[g].kind = "get" /\ pc[g] = "done"
            /\ req[g].id = req[w].movie.id) =>
               response[g] = Response(OK, to_string_pretty(req[w].movie).val)

\* a put was rejected, then a put of a fresh id succeeded
C8_Witness ==
    \E w, f, p \in Tasks :
        /\ req[w].kind = "post" /\ req[f].kind = "post" /\ req[p].kind = "post"
        /\ Succeeded(w)
        /\ Failed(f) /\ response[f].status = BAD_REQUEST
        /\ req[f].movie.id = req[w].movie.id
        /\ f \in doneAtStart[p]
        /\ req[p].movie.id # req[f].movie.id
        /\ Succeeded(p)

(* C9: every entry of the store is keyed by the id of the record it holds, *)
(* so two records in the store have distinct ids.                          *)
C9_UniqueIds ==
    /\ \A k \in DOMAIN store : store[k].id = k
    /\ \A k1, k2 \in DOMAIN store : k1 # k2 => store[k1].id # store[k2].id

\* the store holds two records
C9_Witness == Cardinality(DOMAIN store) >= 2

(* C10: every record in the store has a non-empty id.                      *)
C10_NonEmptyIds == \A k \in DOMAIN store : k # "" /\ store[k].id # ""

\* task t is queued behind the holder of the lock at address a
Waiting(a, t) == \E i \in 1..Len(mutex[a].waiters) : mutex[a].waiters[i] = t

\* task t has asked for the lock and is not queued, or is between check and return
HoldsGuard(t) ==
    \/ pc[t] \in {"insert", "ret"}
    \/ pc[t] = "await" /\ \A a \in Addrs : ~Waiting(a, t)

(* C12: at most one handler holds the guard; a handler between its check   *)
(* and its return is the holder of the store's lock all the time; every    *)
(* step that reads or writes the map is taken by the holder of the lock.   *)
C12_Inv ==
    /\ Cardinality({t \in Tasks : HoldsGuard(t)}) <= 1
    /\ \A t \in Tasks : HoldsGuard(t) => mutex[state].holder = t

C12_Step ==
    /\ \A t \in Tasks :
           (pc[t] \in {"await", "insert"} /\ pc'[t] # pc[t]) =>
               /\ mutex[state].holder = t
               /\ \A u \in Tasks \ {t} : pc[u] \notin {"insert", "ret"}
    /\ movies' # movies => \E t \in Tasks : mutex[state].holder = t /\ pc[t] = "insert"

C12_MutualExclusion == [](C12_Inv) /\ [][C12_Step]_vars

\* a put has inserted and still holds the lock while two other handlers are queued
C12_Witness ==
    \E t \in Tasks :
        /\ pc[t] = "ret"
        /\ mutex[state].holder = t
        /\ Len(mutex[state].waiters) >= 2

(* C13: a get that answers 200 returns, field for field, the payload of a  *)
(* put of its id that had completed with success when the get read the map. *)
C13_Step(t) ==
    (/\ pc[t] = "await" /\ req[t].kind = "get" /\ pc'[t] # "await"
     /\ response'[t].status = OK) =>
        /\ Len(response'[t].body) = 4
        /\ \E p \in PutsOf(req[t].id) :
               /\ Succeeded(p)
               /\ from_str(response'[t].body) = req[p].movie

C13_NoTornRead == [][\A t \in Tasks : C13_Step(t)]_vars

\* a get that started before two competing puts of its id were over has found a record
C13_Witness ==
    \E w, l, g \in Tasks :
        /\ req[w].kind = "post" /\ req[l].kind = "post" /\ req[g].kind = "get"
        /\ req[w].movie.id = req[g].id /\ req[l].movie.id = req[g].id
        /\ req[w].movie # req[l].movie
        /\ Succeeded(w) /\ pc[l] # "idle"
        /\ w \notin doneAtStart[g] /\ l \notin doneAtStart[g]
        /\ pc[g] = "done" /\ response[g].status = OK

(* C15: no step of a get changes the store, and the outcome of a put       *)
(* depends on the puts alone: a put is rejected only when another put of   *)
(* its id has succeeded, and no two puts of one id succeed.                *)
C15_GetStep(t) ==
    (req'[t].kind = "get" /\ pc'[t] # pc[t]) => movies' = movies

C15_PutOutcome ==
    \A p \in Puts :
        /\ Failed(p) => \E q \in PutsOf(req[p].movie.id) \ {p} : Succeeded(q)
        /\ Succeeded(p) => \A q \in PutsOf(req[p].movie.id) \ {p} : ~Succeeded(q)

C15_GetReadOnly == [](C15_PutOutcome) /\ [][\A t \in Tasks : C15_GetStep(t)]_vars

\* a put succeeded, then a get found its record, then a put of the same id was rejected
C15_Witness ==
    \E w, g, l \in Tasks :
        /\ req[w].kind = "post" /\ req[g].kind = "get" /\ req[l].kind = "post"
        /\ req[g].id = req[w].movie.id /\ req[l].movie.id = req[w].movie.id
        /\ Succeeded(w) /\ w \in doneAtStart[g]
        /\ pc[g] = "done" /\ response[g].status = OK /\ g \in doneAtStart[l]
        /\ Failed(l)

\* the puts that have completed their insert
Inserted == {t \in Puts : pc[t] = "ret" \/ Succeeded(t)}

(* C16: the store holds as many records as puts have completed their       *)
(* insert; its set of ids never loses an id, grows by exactly one id in    *)
(* the insert of a put and stays the same in every other step.             *)
C16_Count == Cardinality(DOMAIN store) = Cardinality(Inserted)

C16_Step ==
    /\ DOMAIN store \subseteq DOMAIN movies'[state]
    /\ IF \E t \in Tasks : pc[t] = "insert" /\ pc'[t] = "ret"
       THEN Cardinality(DOMAIN movies'[state]) = Cardinality(DOMAIN store) + 1
       ELSE DOMAIN movies'[state] = DOMAIN store

C16_StoreGrowsByPuts == [](C16_Count) /\ [][C16_Step]_vars

\* two puts have succeeded, one put was rejected, and the store holds two records
C16_Witness ==
    \E w, v, l \in Tasks :
        /\ w # v
        /\ req[w].kind = "post" /\ req[v].kind = "post" /\ req[l].kind = "post"
        /\ Succeeded(w) /\ Succeeded(v) /\ Failed(l)
        /\ Cardinality(DOMAIN store) = 2

\* no handler is between its start and its return
Quiescent == \A t \in Tasks : pc[t] \in {"idle", "done"}

(* C14: under fair scheduling every put and every get that has started     *)
(* completes with a response; a handler that has returned, also by the     *)
(* early BAD_REQUEST return or with NOT_FOUND, neither holds nor waits for  *)
(* the lock, and the lock is free when no handler is running.              *)
C14_Released ==
    /\ \A t \in Done :
           /\ response[t].status \in {OK, BAD_REQUEST, NOT_FOUND}
           /\ \A a \in Addrs : mutex[a].holder # t /\ ~Waiting(a, t)
    /\ Quiescent => \A a \in Addrs : mutex[a] = Mutex_new

C14_EveryCallCompletes ==
    /\ [](C14_Released)
    /\ \A t \in Tasks : (pc[t] # "idle") ~> (pc[t] = "done")

\* a rejected put and a missed get have returned and a handler that queued
\* behind them has completed
C14_Witness ==
    \E l, g, u \in Tasks :
        /\ req[l].kind = "post" /\ Failed(l)
        /\ req[g].kind = "get" /\ Failed(g)
        /\ u # l /\ u # g /\ pc[u] = "done"
        /\ l \notin doneAtStart[u] /\ g \notin doneAtStart[u]
        /\ u \notin doneAtStart[l] /\ u \notin doneAtStart[g]

====
